---- MODULE Spec2Model ----
(***************************************************************************)
(* commit-it: segmentation of a commit message into subject, body and      *)
(* footer, extraction of the Conventional Commit fields of the subject     *)
(* line, and the rule engine that validates them.                          *)
(*                                                                         *)
(* A string is a sequence of one-character strings.  An absent (undefined) *)
(* string is the value Undefined, which is no sequence of characters.      *)
(***************************************************************************)
EXTENDS Integers, Sequences, FiniteSets, TLC

VARIABLES pc, message, options, parsed, footerElements, commit, conv, repository, fetched,
          ruleDescriptions

vars == <<pc, message, options, parsed, footerElements, commit, conv, repository, fetched,
          ruleDescriptions>>

-----------------------------------------------------------------------------
(* Characters and the character classes of the regular expressions.        *)

LF == "\n"
CR == "\r"
TAB == "\t"

LowerCase == <<"a", "b", "c", "d", "e", "f", "g", "h", "i", "j", "k", "l", "m",
               "n", "o", "p", "q", "r", "s", "t", "u", "v", "w", "x", "y", "z">>
UpperCase == <<"A", "B", "C", "D", "E", "F", "G", "H", "I", "J", "K", "L", "M",
               "N", "O", "P", "Q", "R", "S", "T", "U", "V", "W", "X", "Y", "Z">>
LowerSet == {LowerCase[i] : i \in DOMAIN LowerCase}
UpperSet == {UpperCase[i] : i \in DOMAIN UpperCase}
DigitSet == {"0", "1", "2", "3", "4", "5", "6", "7", "8", "9"}

\* [a-z] under the i flag
IsLetter(c) == c \in LowerSet \cup UpperSet
\* \w
IsWordChar(c) == c \in LowerSet \cup UpperSet \cup DigitSet \cup {"_"}
\* the line terminators: what ^ follows under the m flag, what . refuses
IsLineTerminator(c) == c \in {LF, CR}
\* \s, and what trim(), trimEnd() remove
IsWhiteSpace(c) == c \in {" ", TAB, LF, CR}

Undefined == <<"undefined">>
IsDefined(v) == v # Undefined
\* JavaScript truthiness of an optional string: defined and not ""
Truthy(v) == v # Undefined /\ v # <<>>

-----------------------------------------------------------------------------
(* String.prototype helpers.                                               *)

RECURSIVE TrimStart(_)
TrimStart(s) ==
  IF s # <<>> /\ IsWhiteSpace(Head(s)) THEN TrimStart(Tail(s)) ELSE s

RECURSIVE TrimEnd(_)
TrimEnd(s) ==
  IF s # <<>> /\ IsWhiteSpace(s[Len(s)]) THEN TrimEnd(SubSeq(s, 1, Len(s) - 1)) ELSE s

Trim(s) == TrimStart(TrimEnd(s))

StartsWith(s, prefix) ==
  Len(s) >= Len(prefix) /\ SubSeq(s, 1, Len(prefix)) = prefix

\* Array.prototype.join
RECURSIVE Join(_, _)
Join(parts, sep) ==
  IF parts = <<>> THEN <<>>
  ELSE IF Len(parts) = 1 THEN parts[1]
  ELSE parts[1] \o sep \o Join(Tail(parts), sep)

\* the last index of the run of line terminators that starts at index i
RECURSIVE NewlineRunEnd(_, _)
NewlineRunEnd(s, i) ==
  IF i < Len(s) /\ IsLineTerminator(s[i + 1]) THEN NewlineRunEnd(s, i + 1) ELSE i

\* ^ under the m flag: the start of the input, or right after a line terminator
AtLineStart(s, i) == i = 1 \/ IsLineTerminator(s[i - 1])

\* message.split(/^[\r\n]+/m): i scans, p is where the current piece starts
RECURSIVE SplitParagraphsFrom(_, _, _)
SplitParagraphsFrom(s, i, p) ==
  IF i > Len(s) THEN << SubSeq(s, p, Len(s)) >>
  ELSE IF AtLineStart(s, i) /\ IsLineTerminator(s[i])
       THEN LET e == NewlineRunEnd(s, i)
            IN  << SubSeq(s, p, i - 1) >> \o SplitParagraphsFrom(s, e + 1, e + 1)
       ELSE SplitParagraphsFrom(s, i + 1, p)

SplitParagraphs(s) == SplitParagraphsFrom(s, 1, 1)

\* paragraph.split(/[\r\n]+/)
RECURSIVE SplitLineRunsFrom(_, _, _)
SplitLineRunsFrom(s, i, p) ==
  IF i > Len(s) THEN << SubSeq(s, p, Len(s)) >>
  ELSE IF IsLineTerminator(s[i])
       THEN LET e == NewlineRunEnd(s, i)
            IN  << SubSeq(s, p, i - 1) >> \o SplitLineRunsFrom(s, e + 1, e + 1)
       ELSE SplitLineRunsFrom(s, i + 1, p)

SplitLineRuns(s) == SplitLineRunsFrom(s, 1, 1)

\* text.split(/\r?\n/)
RECURSIVE SplitLinesFrom(_, _, _)
SplitLinesFrom(s, i, p) ==
  IF i > Len(s) THEN << SubSeq(s, p, Len(s)) >>
  ELSE IF s[i] = LF
       THEN << SubSeq(s, p, i - 1) >> \o SplitLinesFrom(s, i + 1, i + 1)
  ELSE IF s[i] = CR /\ i < Len(s) /\ s[i + 1] = LF
       THEN << SubSeq(s, p, i - 1) >> \o SplitLinesFrom(s, i + 2, i + 2)
       ELSE SplitLinesFrom(s, i + 1, p)

SplitLines(s) == SplitLinesFrom(s, 1, 1)

-----------------------------------------------------------------------------
(* parseCommitMessage: subject, body and footer of a message.              *)

BreakingChangeColon ==
  <<"B", "R", "E", "A", "K", "I", "N", "G", " ", "C", "H", "A", "N", "G", "E", ":">>

\* the length of the longest prefix of s, from index i on, of [\w-] characters
RECURSIVE KeyRunLen(_, _)
KeyRunLen(s, i) ==
  IF i <= Len(s) /\ (IsWordChar(s[i]) \/ s[i] = "-") THEN 1 + KeyRunLen(s, i + 1) ELSE 0

\* the length of the longest prefix of s, from index i on, of [ \t] characters
RECURSIVE BlankRunLen(_, _)
BlankRunLen(s, i) ==
  IF i <= Len(s) /\ s[i] \in {" ", TAB} THEN 1 + BlankRunLen(s, i + 1) ELSE 0

\* /^((BREAKING CHANGE:)|([\w-]+:)|([ \t]+)\w)/.exec(line) !== null
TrailerLineMatches(line) ==
  \/ StartsWith(line, BreakingChangeColon)
  \/ LET n == KeyRunLen(line, 1) IN n >= 1 /\ n < Len(line) /\ line[n + 1] = ":"
  \/ LET n == BlankRunLen(line, 1) IN n >= 1 /\ n < Len(line) /\ IsWordChar(line[n + 1])

\* every(...) written as some(...)
isTrailerOnlySome(paragraph) ==
  LET lines == SplitLineRuns(paragraph)
  IN  \E i \in DOMAIN lines : TrailerLineMatches(lines[i])

isTrailerOnly(paragraph) ==
  LET lines == SplitLineRuns(paragraph)
  IN  \A i \in DOMAIN lines : TrailerLineMatches(lines[i])

parseCommitMessage(msg) ==
  LET paragraphs == SplitParagraphs(msg)
      n          == Len(paragraphs)
      hasFooter  == n > 1 /\ isTrailerOnly(paragraphs[n])
      footer     == IF hasFooter THEN Trim(paragraphs[n]) ELSE Undefined
      kept       == IF hasFooter THEN SubSeq(paragraphs, 1, n - 1) ELSE paragraphs
      joined     == Trim(Join(Tail(kept), <<LF>>))
      body       == IF Len(kept) > 1 /\ joined # <<>> THEN joined ELSE Undefined
  IN  [subject |-> Trim(kept[1]), body |-> body, footer |-> footer]

-----------------------------------------------------------------------------
(* getFooterElementsFromParagraph and the Commit model (Commit.fromString):*)
(* comment lines stripped, the footer paragraph turned into a mapping.     *)

ToUpperChar(c) ==
  IF c \in LowerSet THEN UpperCase[CHOOSE i \in DOMAIN LowerCase : LowerCase[i] = c] ELSE c
ToLowerChar(c) ==
  IF c \in UpperSet THEN LowerCase[CHOOSE i \in DOMAIN UpperCase : UpperCase[i] = c] ELSE c
toUpperCase(s) == [i \in DOMAIN s |-> ToUpperChar(s[i])]
toLowerCase(s) == [i \in DOMAIN s |-> ToLowerChar(s[i])]

\* the length of the trailer prefix a line starts with, 0 when it starts none:
\* BREAKING CHANGE: in any letter case, KEY: or KEY # with KEY = [\w-]+
TrailerPrefixLen(line) ==
  LET n == KeyRunLen(line, 1)
  IN  IF Len(line) >= Len(BreakingChangeColon)
         /\ toUpperCase(SubSeq(line, 1, Len(BreakingChangeColon))) = BreakingChangeColon
      THEN Len(BreakingChangeColon)
      ELSE IF n >= 1 /\ n < Len(line) /\ line[n + 1] = ":" THEN n + 1
      ELSE IF n >= 1 /\ n + 1 < Len(line) /\ line[n + 1] = " " /\ line[n + 2] = "#" THEN n + 2
      ELSE 0

\* an indented or blank line continues the value of the entry above it
IsContinuationLine(line) == line = <<>> \/ IsWhiteSpace(line[1])

\* the key and the first line of the value of a trailer line
TrailerKey(line) ==
  LET n == TrailerPrefixLen(line)
  IN  IF line[n] = ":" THEN SubSeq(line, 1, n - 1) ELSE SubSeq(line, 1, n - 2)
TrailerValue(line) ==
  LET n == TrailerPrefixLen(line)
  IN  IF line[n] = ":" THEN Trim(SubSeq(line, n + 1, Len(line)))
      ELSE <<"#">> \o SubSeq(line, n + 1, Len(line))

\* the continuation line appended with its indentation
AppendContinuationUntrimmed(element, line) ==
  [element EXCEPT !.value = @ \o <<LF>> \o line]

\* a continuation line is appended to the value, trimmed, after a newline
AppendContinuation(element, line) ==
  [element EXCEPT !.value = @ \o <<LF>> \o Trim(line)]

\* lines[i..] scanned; cur is the entry being continued, <<>> when there is none
RECURSIVE FooterElementsFrom(_, _, _)
FooterElementsFrom(lines, i, cur) ==
  IF i > Len(lines) THEN cur
  ELSE IF TrailerPrefixLen(lines[i]) > 0
       THEN cur \o FooterElementsFrom(lines, i + 1,
              << [lineNumber |-> i, key |-> TrailerKey(lines[i]), value |-> TrailerValue(lines[i])] >>)
  ELSE IF cur # <<>> /\ IsContinuationLine(lines[i])
       THEN FooterElementsFrom(lines, i + 1, << AppendContinuation(cur[1], lines[i]) >>)
       ELSE cur \o FooterElementsFrom(lines, i + 1, <<>>)

getFooterElementsFromParagraph(text) == FooterElementsFrom(SplitLines(text), 1, <<>>)

\* the mapping (an object: keys in first-insertion order, a later value overwrites)
RECURSIVE FooterMapFrom(_, _)
FooterMapFrom(elements, map) ==
  IF elements = <<>> THEN map
  ELSE LET e == Head(elements)
           entry == [key |-> e.key, value |-> e.value]
       IN  IF \E j \in DOMAIN map : map[j].key = e.key
           THEN FooterMapFrom(Tail(elements),
                  [j \in DOMAIN map |-> IF map[j].key = e.key THEN entry ELSE map[j]])
           ELSE FooterMapFrom(Tail(elements), Append(map, entry))

NoFooter == [defined |-> FALSE, map |-> <<>>]

FooterOf(footerText) ==
  IF footerText = Undefined THEN NoFooter
  ELSE LET map == FooterMapFrom(getFooterElementsFromParagraph(footerText), <<>>)
       IN  IF map = <<>> THEN NoFooter ELSE [defined |-> TRUE, map |-> map]

HasKey(footer, key) == \E j \in DOMAIN footer.map : footer.map[j].key = key

\* the physical lines of a text, each with its line terminator
RECURSIVE TerminatedLinesFrom(_, _, _)
TerminatedLinesFrom(s, i, p) ==
  IF i > Len(s) THEN (IF p > Len(s) THEN <<>> ELSE << SubSeq(s, p, Len(s)) >>)
  ELSE IF s[i] = LF
       THEN << SubSeq(s, p, i) >> \o TerminatedLinesFrom(s, i + 1, i + 1)
       ELSE TerminatedLinesFrom(s, i + 1, p)

\* every line that begins with # is removed
RECURSIVE ConcatAll(_)
ConcatAll(parts) == IF parts = <<>> THEN <<>> ELSE Head(parts) \o ConcatAll(Tail(parts))

IsCommentLine(line) == line # <<>> /\ line[1] = "#"

stripComments(msg) ==
  ConcatAll(SelectSeq(TerminatedLinesFrom(msg, 1, 1), LAMBDA l : ~IsCommentLine(l)))

FixupPrefix == <<"f", "i", "x", "u", "p", "!">>

isFixupCommit(subject) ==
  Len(subject) >= Len(FixupPrefix)
  /\ toLowerCase(SubSeq(subject, 1, Len(FixupPrefix))) = FixupPrefix

\* KEY:, KEY #, BREAKING CHANGE: or a continuation line that starts with whitespace
IsTrailerShaped(line) ==
  TrailerPrefixLen(line) > 0 \/ (line # <<>> /\ line[1] \in {" ", TAB})

\* the message segmenter: comment lines stripped, paragraphs split on runs of
\* blank lines with no empty paragraph at either end, the last paragraph the
\* footer when each of its lines is trailer-shaped, the rest the body
segment(msg) ==
  LET paragraphs == SplitParagraphs(Trim(stripComments(msg)))
      n          == Len(paragraphs)
      lastLines  == SplitLines(TrimEnd(paragraphs[n]))
      hasFooter  == n > 1 /\ \A i \in DOMAIN lastLines : IsTrailerShaped(lastLines[i])
      kept       == IF hasFooter THEN SubSeq(paragraphs, 1, n - 1) ELSE paragraphs
      joined     == Trim(Join(Tail(kept), <<LF>>))
  IN  [subject |-> Trim(paragraphs[1]),
       body    |-> IF Len(kept) > 1 /\ joined # <<>> THEN joined ELSE Undefined,
       footer  |-> IF hasFooter THEN TrimEnd(paragraphs[n]) ELSE Undefined]

CommitFromString(msg) ==
  LET seg == segment(msg)
  IN  [raw     |-> msg,
       subject |-> seg.subject,
       body    |-> seg.body,
       footer  |-> FooterOf(seg.footer),
       isFixup |-> isFixupCommit(seg.subject)]

-----------------------------------------------------------------------------
(* createRawConventionalCommit: the five fields of the first subject line. *)

\* the length of the longest prefix of s, from index i on, of [^(!:] characters
RECURSIVE TypeRunLen(_, _)
TypeRunLen(s, i) ==
  IF i <= Len(s) /\ s[i] \notin {"(", "!", ":"} THEN 1 + TypeRunLen(s, i + 1) ELSE 0

\* the length of the longest prefix of s, from index i on, of \s characters
RECURSIVE SpaceRunLen(_, _)
SpaceRunLen(s, i) ==
  IF i <= Len(s) /\ IsWhiteSpace(s[i]) THEN 1 + SpaceRunLen(s, i + 1) ELSE 0

\* the index of the first ")" at or after index i, 0 when there is none
RECURSIVE IndexOfClose(_, _)
IndexOfClose(s, i) ==
  IF i > Len(s) THEN 0 ELSE IF s[i] = ")" THEN i ELSE IndexOfClose(s, i + 1)

\* the pattern with a . that matches a line terminator too
ConventionalCommitRegexDotAll(line) ==
  LET n     == Len(line)
      tLen  == TypeRunLen(line, 1)
      p1    == tLen + 1
      close == IF p1 <= n /\ line[p1] = "(" THEN IndexOfClose(line, p1 + 1) ELSE 0
      sLen  == IF close > 0 THEN (close - p1 + 1) + SpaceRunLen(line, close + 1) ELSE 0
      p2    == p1 + sLen
      bLen  == IF p2 <= n /\ line[p2] = "!" THEN 1 + SpaceRunLen(line, p2 + 1) ELSE 0
      p3    == p2 + bLen
      cLen  == IF p3 <= n /\ line[p3] = ":" THEN 1 + SpaceRunLen(line, p3 + 1) ELSE 0
      p4    == p3 + cLen
      Group(from, len) == IF len > 0 THEN SubSeq(line, from, from + len - 1) ELSE Undefined
  IN  [type      |-> SubSeq(line, 1, tLen),
       scope     |-> Group(p1, sLen),
       breaking  |-> Group(p2, bLen),
       separator |-> Group(p3, cLen),
       subject   |-> Group(p4, n - p4 + 1)]

\* /^(?<type>[^(!:]*)(?<scope>\([^)]*\)\s*)?(?<breaking>!\s*)?(?<separator>:\s*)?(?<subject>.*)?$/
\* An optional group that would match the empty string does not take part
\* (its capture is undefined); . refuses a line terminator, and then nothing matches.
ConventionalCommitRegex(line) ==
  LET n     == Len(line)
      tLen  == TypeRunLen(line, 1)
      p1    == tLen + 1
      close == IF p1 <= n /\ line[p1] = "(" THEN IndexOfClose(line, p1 + 1) ELSE 0
      sLen  == IF close > 0 THEN (close - p1 + 1) + SpaceRunLen(line, close + 1) ELSE 0
      p2    == p1 + sLen
      bLen  == IF p2 <= n /\ line[p2] = "!" THEN 1 + SpaceRunLen(line, p2 + 1) ELSE 0
      p3    == p2 + bLen
      cLen  == IF p3 <= n /\ line[p3] = ":" THEN 1 + SpaceRunLen(line, p3 + 1) ELSE 0
      p4    == p3 + cLen
      rest  == SubSeq(line, p4, n)
      ok    == \A i \in DOMAIN rest : ~IsLineTerminator(rest[i])
      Group(from, len) == IF ok /\ len > 0 THEN SubSeq(line, from, from + len - 1) ELSE Undefined
  IN  [type      |-> IF ok THEN SubSeq(line, 1, tLen) ELSE Undefined,
       scope     |-> Group(p1, sLen),
       breaking  |-> Group(p2, bLen),
       separator |-> Group(p3, cLen),
       subject   |-> Group(p4, n - p4 + 1)]

\* value?.length ?? 0
LengthOrZero(v) == IF IsDefined(v) THEN Len(v) ELSE 0
\* value?.trimEnd().length ?? 1
TrimmedLengthOrOne(v) == IF IsDefined(v) THEN Len(TrimEnd(v)) ELSE 1
\* value?.length ?? 1
LengthOrOne(v) == IF IsDefined(v) THEN Len(v) ELSE 1

FirstIndex == 1

intializeIndices(m) ==
  LET iType  == FirstIndex
      iScope == iType + LengthOrZero(m.type)
      iBreak == iScope + LengthOrZero(m.scope)
      iSep   == iBreak + LengthOrZero(m.breaking)
      iDesc  == iSep + LengthOrZero(m.separator)
  IN  [type        |-> [index |-> iType, value |-> m.type],
       scope       |-> [index |-> iScope, value |-> m.scope],
       breaking    |-> [index |-> iBreak, value |-> m.breaking],
       seperator   |-> [index |-> iSep, value |-> m.separator],
       description |-> [index |-> iDesc, value |-> m.subject]]

createRawConventionalCommit(c) ==
  LET fields == intializeIndices(ConventionalCommitRegex(SplitLines(c.subject)[1]))
  IN  [commit      |-> c,
       type        |-> fields.type,
       scope       |-> fields.scope,
       breaking    |-> fields.breaking,
       seperator   |-> fields.seperator,
       description |-> fields.description,
       body        |-> [index |-> FirstIndex, value |-> c.body]]

-----------------------------------------------------------------------------
(* The rules.  A diagnostic: rule, level, line, column and its fix-it hint.*)

isNoun(str) ==
  LET t == Trim(str)
  IN  (\A i \in DOMAIN t : t[i] # " ") /\ (\A i \in DOMAIN t : IsLetter(t[i]))

\* Object.entries(commit): the elements that carry an index, in insertion order
ElementOrder == <<"type", "scope", "breaking", "seperator", "description", "body">>

\* the loop of the whitespace mode: the element the gap follows, 0 when none
RECURSIVE PrevElementFrom(_, _, _, _)
PrevElementFrom(raw, elementIndex, k, prev) ==
  IF k > Len(ElementOrder) THEN prev
  ELSE LET idx     == raw[ElementOrder[k]].index
           prevIdx == IF prev = 0 THEN 0 ELSE raw[ElementOrder[prev]].index
       IN  IF idx > prevIdx /\ idx < elementIndex
           THEN PrevElementFrom(raw, elementIndex, k + 1, k)
           ELSE PrevElementFrom(raw, elementIndex, k + 1, prev)

\* `(${list.join(", ")})`: the allowed values as a description shows them
Rendered(list) == <<"(">> \o Join(list, <<",", " ">>) \o <<")">>

\* the rules whose description is a fixed text give no list of values
NoValues == <<>>

\* the hint is created with the length as it was computed
createDiagnosticsMessageOfComputedLength(raw, values, highlight, rule, type, whitespace, level) ==
  LET element   == raw[type]
      prev      == PrevElementFrom(raw, element.index, 1, 0)
      prevValue == raw[ElementOrder[prev]].value
      prevIndex == raw[ElementOrder[prev]].index
      hintIndex ==
        IF ~whitespace THEN element.index
        ELSE IF prev # 0 THEN prevIndex + TrimmedLengthOrOne(prevValue) ELSE 1
      hintLength ==
        IF ~whitespace THEN TrimmedLengthOrOne(element.value)
        ELSE IF prev # 0 THEN LengthOrOne(prevValue) - TrimmedLengthOrOne(prevValue) ELSE 0
  IN  [rule |-> rule, level |-> level, line |-> 1, column |-> hintIndex,
       fixIndex |-> hintIndex, fixLength |-> hintLength,
       highlight |-> highlight, values |-> values, context |-> 1]

\* highlight is the phrase of the description the rule marks, values the list
\* of allowed values written into the description, context the line number
\* given to the first line of the context (setContext)
createDiagnosticsMessage(raw, values, highlight, rule, type, whitespace, level) ==
  LET element   == raw[type]
      prev      == PrevElementFrom(raw, element.index, 1, 0)
      prevValue == raw[ElementOrder[prev]].value
      prevIndex == raw[ElementOrder[prev]].index
      hintIndex ==
        IF ~whitespace THEN element.index
        ELSE IF prev # 0 THEN prevIndex + TrimmedLengthOrOne(prevValue) ELSE 1
      hintLength ==
        IF ~whitespace THEN TrimmedLengthOrOne(element.value)
        ELSE IF prev # 0 THEN LengthOrOne(prevValue) - TrimmedLengthOrOne(prevValue) ELSE 0
  IN  [rule |-> rule, level |-> level, line |-> 1, column |-> hintIndex,
       fixIndex |-> hintIndex, fixLength |-> IF hintLength = 0 THEN 1 ELSE hintLength,
       highlight |-> highlight, values |-> values, context |-> 1]

Error(raw, highlight, rule, type, whitespace) ==
  createDiagnosticsMessage(raw, NoValues, highlight, rule, type, whitespace, "error")

\* an empty type reported by this rule too
CC01ReportsEmptyType(raw) ==
  LET t == raw.type.value
      typed ==
        IF ~Truthy(t) \/ Len(Trim(t)) = 0
        THEN << Error(raw, "which consists of a noun", "CC-01", "type", FALSE) >>
        ELSE (IF ~isNoun(t) THEN << Error(raw, "which consists of a noun", "CC-01", "type", FALSE) >> ELSE <<>>)
          \o (IF Trim(t) # t
              THEN (IF Truthy(raw.scope.value) THEN << Error(raw, "followed by the OPTIONAL scope", "CC-01", "scope", TRUE) >>
                    ELSE IF Truthy(raw.breaking.value) THEN << Error(raw, "OPTIONAL !", "CC-01", "breaking", TRUE) >>
                    ELSE << Error(raw, "REQUIRED terminal colon", "CC-01", "seperator", TRUE) >>)
              ELSE <<>>)
          \o (IF Truthy(raw.scope.value) /\ Trim(raw.scope.value) # raw.scope.value
              THEN (IF Truthy(raw.breaking.value) THEN << Error(raw, "OPTIONAL !", "CC-01", "breaking", TRUE) >>
                    ELSE << Error(raw, "REQUIRED terminal colon", "CC-01", "seperator", TRUE) >>)
              ELSE <<>>)
          \o (IF Truthy(raw.breaking.value) /\ Trim(raw.breaking.value) # raw.breaking.value
              THEN << Error(raw, "REQUIRED terminal colon", "CC-01", "seperator", TRUE) >>
              ELSE <<>>)
  IN  typed \o (IF ~Truthy(raw.seperator.value)
                THEN << Error(raw, "REQUIRED terminal colon", "CC-01", "seperator", FALSE) >> ELSE <<>>)

CC01(raw) ==
  LET t == raw.type.value
      typed ==
        IF ~Truthy(t) \/ Len(Trim(t)) = 0 THEN <<>>
        ELSE (IF ~isNoun(t) THEN << Error(raw, "which consists of a noun", "CC-01", "type", FALSE) >> ELSE <<>>)
          \o (IF Trim(t) # t
              THEN (IF Truthy(raw.scope.value) THEN << Error(raw, "followed by the OPTIONAL scope", "CC-01", "scope", TRUE) >>
                    ELSE IF Truthy(raw.breaking.value) THEN << Error(raw, "OPTIONAL !", "CC-01", "breaking", TRUE) >>
                    ELSE << Error(raw, "REQUIRED terminal colon", "CC-01", "seperator", TRUE) >>)
              ELSE <<>>)
          \o (IF Truthy(raw.scope.value) /\ Trim(raw.scope.value) # raw.scope.value
              THEN (IF Truthy(raw.breaking.value) THEN << Error(raw, "OPTIONAL !", "CC-01", "breaking", TRUE) >>
                    ELSE << Error(raw, "REQUIRED terminal colon", "CC-01", "seperator", TRUE) >>)
              ELSE <<>>)
          \o (IF Truthy(raw.breaking.value) /\ Trim(raw.breaking.value) # raw.breaking.value
              THEN << Error(raw, "REQUIRED terminal colon", "CC-01", "seperator", TRUE) >>
              ELSE <<>>)
  IN  typed \o (IF ~Truthy(raw.seperator.value)
                THEN << Error(raw, "REQUIRED terminal colon", "CC-01", "seperator", FALSE) >> ELSE <<>>)

\* scope.value.trimEnd().substring(1, scope.value.trimEnd().length - 1)
ScopeContent(v) == LET t == TrimEnd(v) IN SubSeq(t, 2, Len(t) - 1)

CC04(raw) ==
  LET v == raw.scope.value
  IN  IF Truthy(v) /\ (v = <<"(", ")">> \/ ~isNoun(ScopeContent(v)))
      THEN << Error(raw, "A scope MUST consist of a noun", "CC-04", "scope", FALSE) >>
      ELSE <<>>

CC05(raw) ==
  LET sep == raw.seperator.value
  IN  IF ~Truthy(sep) THEN <<>>
      ELSE IF raw.description.value = Undefined \/ Len(sep) - Len(Trim(sep)) # 1
      THEN << Error(raw, "A description MUST immediately follow the colon and space",
                    "CC-05", "description", TRUE) >>
      ELSE <<>>

\* the lines of the first paragraph of the message as it was given
CC06OfRawMessage(raw) ==
  LET lines == SplitLines(SplitParagraphs(raw.commit.raw)[1])
  IN  IF raw.commit.subject = <<>> THEN <<>>
      ELSE IF Len(lines) > 1
      THEN << [rule |-> "CC-06", level |-> "error", line |-> 2, column |-> 1,
               fixIndex |-> 1, fixLength |-> Len(lines[2]),
               highlight |-> "The body MUST begin one blank line after the description",
               values |-> NoValues, context |-> 1] >>
      ELSE <<>>

\* the fix-it as long as the first line of the subject
CC06FirstLineLength(raw) ==
  LET lines == SplitLines(raw.commit.subject)
  IN  IF raw.commit.subject = <<>> THEN <<>>
      ELSE IF Len(lines) > 1
      THEN << [rule |-> "CC-06", level |-> "error", line |-> 2, column |-> 1,
               fixIndex |-> 1, fixLength |-> Len(lines[1]),
               highlight |-> "The body MUST begin one blank line after the description",
               values |-> NoValues, context |-> 1] >>
      ELSE <<>>

CC06(raw) ==
  LET lines == SplitLines(raw.commit.subject)
  IN  IF raw.commit.subject = <<>> THEN <<>>
      ELSE IF Len(lines) > 1
      THEN << [rule |-> "CC-06", level |-> "error", line |-> 2, column |-> 1,
               fixIndex |-> 1, fixLength |-> Len(lines[2]),
               highlight |-> "The body MUST begin one blank line after the description",
               values |-> NoValues, context |-> 1] >>
      ELSE <<>>

BreakingChangeKeys ==
  { <<"B", "R", "E", "A", "K", "I", "N", "G", " ", "C", "H", "A", "N", "G", "E">>,
    <<"B", "R", "E", "A", "K", "I", "N", "G", "-", "C", "H", "A", "N", "G", "E">> }

\* one error for each breaking-change key, those in upper case included
CC15InAnyCase(raw) ==
  LET found == SelectSeq(getFooterElementsFromParagraph(raw.commit.raw),
                 LAMBDA e : toUpperCase(e.key) \in BreakingChangeKeys)
  IN  [i \in 1..Len(found) |->
         [rule |-> "CC-15", level |-> "error", line |-> found[i].lineNumber, column |-> 1,
          fixIndex |-> 1, fixLength |-> Len(found[i].key),
          highlight |-> "BREAKING CHANGE MUST be uppercase", values |-> NoValues,
          context |-> found[i].lineNumber]]

\* one error for each element whose key is a breaking-change key in any case
\* other than upper case, in the order of the elements
CC15(raw) ==
  LET found == SelectSeq(getFooterElementsFromParagraph(raw.commit.raw),
                 LAMBDA e : toUpperCase(e.key) \in BreakingChangeKeys /\ e.key # toUpperCase(e.key))
  IN  [i \in 1..Len(found) |->
         [rule |-> "CC-15", level |-> "error", line |-> found[i].lineNumber, column |-> 1,
          fixIndex |-> 1, fixLength |-> Len(found[i].key),
          highlight |-> "BREAKING CHANGE MUST be uppercase", values |-> NoValues,
          context |-> found[i].lineNumber]]

\* options?.list ?? []
NoList == << Undefined >>
OrEmpty(list) == IF list = NoList THEN <<>> ELSE list

\* Array.from(new Set(list)): the distinct values in first-occurrence order
RECURSIVE Unique(_)
Unique(list) ==
  IF list = <<>> THEN <<>>
  ELSE LET init == Unique(SubSeq(list, 1, Len(list) - 1))
           last == list[Len(list)]
       IN  IF \E i \in DOMAIN init : init[i] = last THEN init ELSE Append(init, last)

Includes(list, v) == \E i \in DOMAIN list : list[i] = v

\* value.replace(/[()]+/g, "")
WithoutParentheses(v) == SelectSeq(v, LAMBDA c : c \notin {"(", ")"})

\* the diagnostic is created from the description the rule object held when
\* the call began
EC01EarlierDescription(raw, opts) ==
  LET uniqueScopeList == Unique(OrEmpty(opts.scopes))
  IN  IF uniqueScopeList = <<>> THEN <<>>
      ELSE IF raw.scope.value = Undefined
              \/ Includes(uniqueScopeList, WithoutParentheses(raw.scope.value))
      THEN <<>>
      ELSE << createDiagnosticsMessage(raw, ruleDescriptions.EC01, "A scope MUST consist of",
                                       "EC-01", "scope", FALSE, "error") >>

EC01(raw, opts) ==
  LET uniqueScopeList == Unique(OrEmpty(opts.scopes))
  IN  IF uniqueScopeList = <<>> THEN <<>>
      ELSE IF raw.scope.value = Undefined
              \/ Includes(uniqueScopeList, WithoutParentheses(raw.scope.value))
      THEN <<>>
      ELSE << createDiagnosticsMessage(raw, Rendered(uniqueScopeList), "A scope MUST consist of",
                                       "EC-01", "scope", FALSE, "error") >>

Feat == <<"f", "e", "a", "t">>
Fix == <<"f", "i", "x">>

\* the configured types shown as they are listed, repetitions included
EC02AsListed(raw, opts) ==
  LET addedTypes    == SelectSeq(OrEmpty(opts.types), LAMBDA t : t # Feat /\ t # Fix)
      expectedTypes == <<Feat, Fix>> \o addedTypes
      t             == raw.type.value
  IN  IF t = Undefined \/ ~isNoun(t) \/ Includes(expectedTypes, TrimEnd(toLowerCase(t)))
      THEN <<>>
      ELSE IF Len(Trim(t)) = 0
      THEN << createDiagnosticsMessage(raw, Rendered(expectedTypes), "prefixed with a type",
                                       "EC-02", "type", FALSE, "error") >>
      ELSE << createDiagnosticsMessage(raw, Rendered(expectedTypes),
                                       "prefixed with a type, which consists of",
                                       "EC-02", "type", FALSE,
                                       IF Len(addedTypes) > 0 THEN "error" ELSE "warning") >>

\* every list of configured types, one of feat and fix alone included, closes
\* the vocabulary
EC02AnyListCloses(raw, opts) ==
  LET uniqueAddedTypes == SelectSeq(Unique(OrEmpty(opts.types)), LAMBDA t : t # Feat /\ t # Fix)
      expectedTypes    == <<Feat, Fix>> \o uniqueAddedTypes
      t                == raw.type.value
  IN  IF t = Undefined \/ ~isNoun(t) \/ Includes(expectedTypes, TrimEnd(toLowerCase(t)))
      THEN <<>>
      ELSE IF Len(Trim(t)) = 0
      THEN << createDiagnosticsMessage(raw, Rendered(expectedTypes), "prefixed with a type",
                                       "EC-02", "type", FALSE, "error") >>
      ELSE << createDiagnosticsMessage(raw, Rendered(expectedTypes),
                                       "prefixed with a type, which consists of",
                                       "EC-02", "type", FALSE,
                                       IF Len(OrEmpty(opts.types)) > 0 THEN "error" ELSE "warning") >>

EC02(raw, opts) ==
  LET uniqueAddedTypes == SelectSeq(Unique(OrEmpty(opts.types)), LAMBDA t : t # Feat /\ t # Fix)
      expectedTypes    == <<Feat, Fix>> \o uniqueAddedTypes
      t                == raw.type.value
  IN  IF t = Undefined \/ ~isNoun(t) \/ Includes(expectedTypes, TrimEnd(toLowerCase(t)))
      THEN <<>>
      ELSE IF Len(Trim(t)) = 0
      THEN << createDiagnosticsMessage(raw, Rendered(expectedTypes), "prefixed with a type",
                                       "EC-02", "type", FALSE, "error") >>
      ELSE << createDiagnosticsMessage(raw, Rendered(expectedTypes),
                                       "prefixed with a type, which consists of",
                                       "EC-02", "type", FALSE,
                                       IF Len(uniqueAddedTypes) > 0 THEN "error" ELSE "warning") >>

\* one warning for each breaking-change key of the body in any case
WA01InAnyCase(raw) ==
  IF raw.commit.body = Undefined THEN <<>>
  ELSE LET found == SelectSeq(getFooterElementsFromParagraph(raw.commit.body),
                      LAMBDA e : toUpperCase(e.key) \in BreakingChangeKeys)
       IN  [i \in 1..Len(found) |->
              [rule |-> "WA-01", level |-> "warning",
               line |-> Len(SplitLines(raw.commit.subject)) + found[i].lineNumber, column |-> 1,
               fixIndex |-> 1, fixLength |-> Len(found[i].key),
               highlight |-> "will be ignored as it MUST be included in the footer",
               values |-> NoValues,
               context |-> Len(SplitLines(raw.commit.subject)) + 1]]

WA01(raw) ==
  IF raw.commit.body = Undefined THEN <<>>
  ELSE LET found == SelectSeq(getFooterElementsFromParagraph(raw.commit.body),
                      LAMBDA e : e.key \in BreakingChangeKeys)
       IN  [i \in 1..Len(found) |->
              [rule |-> "WA-01", level |-> "warning",
               line |-> Len(SplitLines(raw.commit.subject)) + found[i].lineNumber, column |-> 1,
               fixIndex |-> 1, fixLength |-> Len(found[i].key),
               highlight |-> "will be ignored as it MUST be included in the footer",
               values |-> NoValues,
               context |-> Len(SplitLines(raw.commit.subject)) + 1]]

\* the rules after the first one that reports are not run
commitRulesUntilFirstReport(raw, opts) ==
  LET all == << CC01(raw), CC04(raw), CC05(raw), CC06(raw), CC15(raw), EC01(raw, opts), EC02(raw, opts), WA01(raw) >>
  IN  [i \in 1..8 |-> IF \E j \in 1..(i - 1) : Len(all[j]) > 0 THEN <<>> ELSE all[i]]

\* requirements.commitRules, each rule run on the same fields and options
commitRules(raw, opts) ==
  << CC01(raw), CC04(raw), CC05(raw), CC06(raw), CC15(raw), EC01(raw, opts), EC02(raw, opts), WA01(raw) >>

\* The description fields of the rule objects EC-01 and EC-02, which their
\* validate assigns: the part of the text that varies.
InitialDescriptions ==
  [EC01 |-> <<"(", ".", ".", ".", ")">>,
   EC02 |-> [modal |-> "MUST",
             values |-> <<"(", "f", "e", "a", "t", ",", " ", "f", "i", "x", ",", " ", ".", ".", ".", ")">>]]

\* the text EC01 assigns before it creates its diagnostic
EC01Description(opts) == Rendered(Unique(OrEmpty(opts.scopes)))

\* the text EC02 assigns on every call
EC02Description(opts) ==
  LET uniqueAddedTypes == SelectSeq(Unique(OrEmpty(opts.types)), LAMBDA t : t # Feat /\ t # Fix)
  IN  [modal  |-> IF Len(uniqueAddedTypes) > 0 THEN "MUST" ELSE "MAY",
       values |-> Rendered(<<Feat, Fix>> \o uniqueAddedTypes)]

\* the description fields after the rules have run on raw and opts
descriptionsAfterValidate(descriptions, raw, opts) ==
  [EC01 |-> IF Len(EC01(raw, opts)) > 0 THEN EC01Description(opts) ELSE descriptions.EC01,
   EC02 |-> EC02Description(opts)]

-----------------------------------------------------------------------------
(* ConventionalCommit: the fields, the validation results, the accessors.  *)

\* the errors left unfiltered
validateUnfiltered(raw, opts) ==
  LET results == ConcatAll(commitRules(raw, opts))
  IN  [errors   |-> results,
       warnings |-> SelectSeq(results, LAMBDA r : r.level = "warning")]

validate(raw, opts) ==
  LET results == ConcatAll(commitRules(raw, opts))
  IN  [errors   |-> SelectSeq(results, LAMBDA r : r.level = "error"),
       warnings |-> SelectSeq(results, LAMBDA r : r.level = "warning")]

ConventionalCommitFromCommit(c, opts) ==
  LET raw == createRawConventionalCommit(c)
      res == validate(raw, opts)
  IN  [raw |-> raw, errors |-> res.errors, warnings |-> res.warnings]

type(cc) == IF IsDefined(cc.raw.type.value) THEN TrimEnd(cc.raw.type.value) ELSE Undefined

scope(cc) ==
  IF IsDefined(cc.raw.scope.value) THEN WithoutParentheses(TrimEnd(cc.raw.scope.value))
  ELSE Undefined

description(cc) == cc.raw.description.value

\* the footer keys compared without regard to case
breakingAnyCase(cc) ==
  \/ (IsDefined(cc.raw.breaking.value) /\ TrimEnd(cc.raw.breaking.value) = <<"!">>)
  \/ (cc.raw.commit.footer.defined
      /\ \E j \in DOMAIN cc.raw.commit.footer.map :
           toUpperCase(cc.raw.commit.footer.map[j].key) \in BreakingChangeKeys)

breaking(cc) ==
  \/ (IsDefined(cc.raw.breaking.value) /\ TrimEnd(cc.raw.breaking.value) = <<"!">>)
  \/ (cc.raw.commit.footer.defined
      /\ \E key \in BreakingChangeKeys : HasKey(cc.raw.commit.footer, key))

isValid(cc) == Len(cc.errors) = 0

-----------------------------------------------------------------------------
(* The inputs: the messages and options the operations are called with.    *)

\* the most lines of a message of the segmentation family
MaxLines == 6
\* the most lines that follow the subject paragraph of a message with a tail
MaxTailLines == 3

\* every sequence of at most n elements of S
SeqsUpTo(S, n) == UNION { [1..k -> S] : k \in 0..n }

\* lines of the segmentation family: plain, KEY: trailer, blank, KEY # trailer
SegmentLines ==
  { <<"a">>,
    <<"k", ":", " ", "v">>,
    <<>>,
    <<"k", " ", "#", "1">> }

LineTerminators == { <<LF>>, <<CR, LF>> }

SegmentMessages ==
  { Join(lines, eol) : lines \in (SeqsUpTo(SegmentLines, MaxLines) \ {<<>>}), eol \in LineTerminators }

\* the pieces a subject line is put together from
TypeParts ==
  { <<"f", "e", "a", "t">>,
    <<"F", "i", "x">>,
    <<"d", "o", "c">>,
    <<>>,
    <<"f", "e", "a", "t", " ">>,
    <<"f", " ", "t">> }
ScopeParts ==
  { <<>>,
    <<"(", ")">>,
    <<"(", "c", "l", "i", ")">>,
    <<"(", "a", " ", "b", ")">>,
    <<"(", " ", "c", "l", "i", ")">>,
    <<"(", " ", ")">>,
    <<"(", "a", "-", "b", ")">>,
    <<"(", "A", "b", ")">>,
    <<"(", "c", "l", "i", ")", " ">> }
BreakingParts ==
  { <<>>,
    <<"!">>,
    <<"!", " ">> }
SeparatorParts ==
  { <<>>,
    <<":">>,
    <<":", " ">>,
    <<":", " ", " ">> }
DescriptionParts ==
  { <<>>,
    <<"x">> }

SubjectMessages ==
  { t \o s \o b \o c \o d :
      t \in TypeParts, s \in ScopeParts, b \in BreakingParts,
      c \in SeparatorParts, d \in DescriptionParts }

\* the subjects of the messages that have a tail
TailSubjects ==
  { <<"f", "e", "a", "t", ":", " ", "x">>,
    <<"f", "i", "x", "(", "a", " ", "b", ")", "!", " ", ":", " ", "x">> }
\* the lines of a tail
TailLines ==
  { <<"k", ":", " ", "v">>,
    <<" ", "c">>,
    <<" ">>,
    <<>>,
    <<"b">>,
    <<"B", "R", "E", "A", "K", "I", "N", "G", " ", "C", "H", "A", "N", "G", "E", ":", " ", "y">>,
    <<"B", "R", "E", "A", "K", "I", "N", "G", "-", "C", "H", "A", "N", "G", "E", ":", " ", "y">>,
    <<"b", "r", "e", "a", "k", "i", "n", "g", "-", "c", "h", "a", "n", "g", "e", ":", " ", "y">> }

TailMessages ==
  { Join(<<s, <<>>>> \o lines, <<LF>>) : s \in TailSubjects, lines \in SeqsUpTo(TailLines, MaxTailLines) }

NoOptions == [scopes |-> NoList, types |-> NoList]

\* the most lines that follow the first line of a message without a blank
\* line being put between them
MaxUnderLines == 3

\* the pieces of the subjects that are validated under configured values
ConfiguredTypeParts ==
  { <<"f", "e", "a", "t">>,
    <<"F", "E", "A", "T">>,
    <<"d", "o", "c">>,
    <<"D", "o", "c">>,
    <<"c", "h", "o", "r", "e">>,
    <<>>,
    <<" ">> }
ConfiguredScopeParts ==
  { <<>>,
    <<"(", "c", "l", "i", ")">>,
    <<"(", "x", ")">> }
\* subjects that start with the fixup marker
FixupSubjects ==
  { <<"f", "i", "x", "u", "p", "!", " ", "f", "e", "a", "t", ":", " ", "x">>,
    <<"f", "i", "x", "u", "p", "!", ":", " ", "x">>,
    <<"F", "I", "X", "U", "P", "!", " ", "x">>,
    <<"F", "i", "x", "u", "p", "!", "(", "c", "l", "i", ")", ":", " ", "x">> }
ConfiguredSubjects ==
  { t \o s \o <<":", " ", "x">> : t \in ConfiguredTypeParts, s \in ConfiguredScopeParts } \cup FixupSubjects

\* options.scopes and options.types: omitted, empty, with repeated values,
\* naming feat and fix, and written with a capital
ScopeLists ==
  { NoList,
    <<>>,
    << <<"c", "l", "i">>, <<"c", "l", "i">>, <<"a", "b">>, <<"c", "l", "i">> >> }
TypeLists ==
  { NoList,
    <<>>,
    << <<"d", "o", "c">> >>,
    << <<"f", "e", "a", "t">>, <<"d", "o", "c">>, <<"d", "o", "c">>, <<"f", "i", "x">>, <<"c", "i">> >>,
    << <<"f", "e", "a", "t">>, <<"f", "i", "x">> >>,
    << <<"D", "o", "c">> >> }
ConfiguredOptions == [scopes : ScopeLists, types : TypeLists]

\* the lines written under the first line: a comment, a blank line, text
\* and breaking-change trailers in upper and lower case
UnderLines ==
  { <<"#", "c">>,
    <<>>,
    <<"b">>,
    <<"B", "R", "E", "A", "K", "I", "N", "G", " ", "C", "H", "A", "N", "G", "E", ":", " ", "y">>,
    <<"b", "r", "e", "a", "k", "i", "n", "g", " ", "c", "h", "a", "n", "g", "e", ":", " ", "y">> }
UnderSubject == <<"f", "e", "a", "t", ":", " ", "x">>
UnderMessages ==
  { Join(<<UnderSubject>> \o lines, <<LF>>) : lines \in SeqsUpTo(UnderLines, MaxUnderLines) }

OptionValues ==
  [scopes : {NoList, << <<"c", "l", "i">> >>}, types : {NoList, << <<"d", "o", "c">> >>}]

\* repeated calls: subjects whose type and scope the configured lists accept
\* or refuse, under lists that differ from call to call
RepeatMessages ==
  { <<"f", "e", "a", "t", ":", " ", "x">>,
    <<"f", "e", "a", "t", "(", "c", "l", "i", ")", ":", " ", "x">>,
    <<"d", "o", "c", "(", "x", ")", ":", " ", "y">>,
    <<"k", ":", " ", "v">> }

RepeatOptions ==
  [scopes : {NoList, << <<"c", "l", "i">> >>, << <<"a", "b">>, <<"x">> >>},
   types  : {NoList, << <<"d", "o", "c">> >>, << <<"c", "i">> >>}]

\* messages that are no commit message: empty, blank, of punctuation only,
\* and with a lone carriage return in the first line
GarbageMessages ==
  { <<>>,
    <<" ">>,
    <<CR>>,
    <<"f", "e", "a", "t", ":", " ", "x", CR, "y">>,
    <<"f", "e", "a", "t", CR, ":", " ", "x">>,
    <<"f", "e", "a", "t", ":", CR, "x">>,
    <<"x", CR, CR, "y">>,
    <<")", "(", "(">>,
    <<"!", ":", "(">>,
    <<TAB, ":", TAB>>,
    <<"#">>,
    <<LF, LF>>,
    <<"(", CR, ")", "!">> }

-----------------------------------------------------------------------------
(* The git data source.  A repository is what the reader finds on disk: the *)
(* objects folder, the loose object of the hash, the pack folder and an     *)
(* index of a pack that lists the hash.                                      *)

\* the lines of a commit object in front of its message
ObjectHeader == <<"c", "o", "m", "m", "i", "t", " ", "9", LF, "t", "r", "e", "e", " ", "t", LF, "a", "u", "t", "h", "o", "r", " ", "a", " ", "1", " ", "+", "0", "0", "0", "0">>

\* the text of the commit object that stores msg
ObjectOf(msg) == ObjectHeader \o <<LF, LF>> \o msg

\* git.parseCommitMessage: the message is what follows the first paragraph
ParseObject(object) ==
  LET raw == Trim(Join(Tail(SplitParagraphs(object)), <<LF>>))
  IN  [raw |-> raw, message |-> parseCommitMessage(raw)]

NoCommit == [raw |-> Undefined, message |-> Undefined]

Found(c) == [outcome |-> "commit", error |-> "", commit |-> c]
Thrown(text) == [outcome |-> "error", error |-> text, commit |-> NoCommit]

\* undefined when there is no object file of the hash
getCommitFromLocalObjects(repo, msg) ==
  IF ~repo.loose THEN Thrown("undefined") ELSE Found(ParseObject(ObjectOf(msg)))

\* readdirSync fails when there is no pack folder; undefined when no index
\* lists the hash
getCommitFromPackFile(repo, msg) ==
  IF ~repo.pack THEN Thrown("ENOENT: no such file or directory, scandir")
  ELSE IF ~repo.packed THEN Thrown("undefined")
  ELSE Found(ParseObject(ObjectOf(msg)))

getCommitFromHash(repo, msg) ==
  IF ~repo.objects THEN Thrown("Invalid git folder specified")
  ELSE IF getCommitFromLocalObjects(repo, msg).outcome = "commit"
       THEN getCommitFromLocalObjects(repo, msg)
       ELSE IF getCommitFromPackFile(repo, msg).error # "undefined"
            THEN getCommitFromPackFile(repo, msg)
            ELSE Thrown("Could not find commit message for hash")

\* what can be on disk: a loose object or a pack folder only in an objects
\* folder, an index only in a pack folder
Repositories ==
  { r \in [objects : BOOLEAN, loose : BOOLEAN, pack : BOOLEAN, packed : BOOLEAN] :
      /\ r.loose => r.objects
      /\ r.pack => r.objects
      /\ r.packed => r.pack }

\* the repository of the operations that read no repository: the hash is a
\* loose object
LooseRepository == [objects |-> TRUE, loose |-> TRUE, pack |-> TRUE, packed |-> FALSE]

\* the most lines of a message stored in a repository
MaxGitLines == 2

GitMessages ==
  { Join(lines, <<LF>>) : lines \in (SeqsUpTo(SegmentLines, MaxGitLines) \ {<<>>}) }

-----------------------------------------------------------------------------
(* The state machine: a message is given, and the operations are called.   *)

NotComputed == "not computed"

InitWith(messages, opts, repos) ==
  /\ pc = "start"
  /\ message \in messages
  /\ options \in opts
  /\ repository \in repos
  /\ fetched = NotComputed
  /\ parsed = NotComputed
  /\ footerElements = NotComputed
  /\ commit = NotComputed
  /\ conv = NotComputed
  /\ ruleDescriptions = InitialDescriptions

\* conventional-commit messages: every subject under every option value, the
\* subjects that have a tail under no options, the subjects of configured
\* types and scopes under every list of configured values, the messages
\* with lines directly under their first line, the messages that are no
\* commit message under every list of configured values, and the messages
\* and options of repeated calls
Init ==
  \/ InitWith(SubjectMessages, OptionValues, {LooseRepository})
  \/ InitWith(TailMessages, {NoOptions}, {LooseRepository})
  \/ InitWith(ConfiguredSubjects, ConfiguredOptions, {LooseRepository})
  \/ InitWith(UnderMessages, {NoOptions}, {LooseRepository})
  \/ InitWith(GarbageMessages, ConfiguredOptions, {LooseRepository})
  \/ InitWith(RepeatMessages, RepeatOptions, {LooseRepository})

\* segmentation messages: lines of every kind under both line terminators
InitSegment == InitWith(SegmentMessages, {NoOptions}, {LooseRepository})

\* stored messages: short messages in every repository
InitGit == InitWith(GitMessages, {NoOptions}, Repositories)

\* getCommit({ message }): the string data source
GetCommit ==
  /\ pc = "start"
  /\ parsed' = parseCommitMessage(message)
  /\ pc' = "parsed"
  /\ UNCHANGED <<message, options, footerElements, commit, conv, repository, fetched, ruleDescriptions>>

\* getFooterElementsFromParagraph(message)
GetFooterElements ==
  /\ pc = "start"
  /\ footerElements' = getFooterElementsFromParagraph(message)
  /\ pc' = "footerElements"
  /\ UNCHANGED <<message, options, parsed, commit, conv, repository, fetched, ruleDescriptions>>

\* Commit.fromString({ message })
FromString ==
  /\ pc = "start"
  /\ commit' = CommitFromString(message)
  /\ pc' = "commit"
  /\ UNCHANGED <<message, options, parsed, footerElements, conv, repository, fetched, ruleDescriptions>>

\* ConventionalCommit.fromCommit(commit, options)
FromCommit ==
  /\ pc = "commit"
  /\ conv' = ConventionalCommitFromCommit(commit, options)
  /\ ruleDescriptions' = descriptionsAfterValidate(ruleDescriptions, conv'.raw, options)
  /\ pc' = "conventional"
  /\ UNCHANGED <<message, options, parsed, footerElements, commit, repository, fetched>>

\* getCommit({ hash, rootPath }): the git data source
GetCommitFromHash ==
  /\ pc = "start"
  /\ fetched' = getCommitFromHash(repository, message)
  /\ pc' = "fetched"
  /\ UNCHANGED <<message, options, parsed, footerElements, commit, conv, repository, ruleDescriptions>>

\* the caller's next ConventionalCommit.fromString(props, options): the rule
\* objects of the module are the ones the earlier call left.  The calls that
\* are followed by another are those of the messages and options of repeated
\* calls.
NextCall ==
  /\ pc = "conventional"
  /\ message \in RepeatMessages /\ options \in RepeatOptions
  /\ message' \in RepeatMessages
  /\ options' \in RepeatOptions
  /\ commit' = NotComputed
  /\ conv' = NotComputed
  /\ pc' = "start"
  /\ UNCHANGED <<parsed, footerElements, repository, fetched, ruleDescriptions>>

Next ==
  GetCommit \/ GetFooterElements \/ FromString \/ FromCommit \/ GetCommitFromHash \/ NextCall

Spec == Init /\ [][Next]_vars

SpecSegment == InitSegment /\ [][Next]_vars

SpecGit == InitGit /\ [][Next]_vars

-----------------------------------------------------------------------------
(* Segmentation: the properties of parseCommitMessage (SpecSegment).       *)

NoCarriageReturn(s) == \A i \in DOMAIN s : s[i] # CR

\* a line that is empty or holds only whitespace, before the last line terminator
HasBlankLine(msg) ==
  LET lines == SplitLines(msg)
  IN  \E i \in 1..(Len(lines) - 1) : Trim(lines[i]) = <<>>

\* C1: a message with no blank line, under either line terminator, has no
\* body and no footer, and its subject is the whole message trimmed.
C1_NoBlankLineIsSubjectOnly ==
  (pc = "parsed" /\ ~HasBlankLine(message))
    => parsed = [subject |-> Trim(message), body |-> Undefined, footer |-> Undefined]

\* the index of the last empty line of lines, 0 when there is none
LastEmptyLine(lines) ==
  IF \E i \in DOMAIN lines : lines[i] = <<>>
  THEN CHOOSE i \in DOMAIN lines : lines[i] = <<>> /\ \A j \in (i + 1)..Len(lines) : lines[j] # <<>>
  ELSE 0

\* the lines after the last empty line
LastParagraph(msg) ==
  LET lines == SplitLines(msg)
  IN  SubSeq(lines, LastEmptyLine(lines) + 1, Len(lines))

\* a message of LF-terminated lines that starts and ends with a line of text
\* and has an empty line in between
HasTwoParagraphs(msg) ==
  LET lines == SplitLines(msg)
  IN  /\ NoCarriageReturn(msg)
      /\ lines[1] # <<>> /\ lines[Len(lines)] # <<>>
      /\ LastEmptyLine(lines) > 0

\* C2: with at least two paragraphs, the footer is defined exactly when every
\* line of the last paragraph is trailer-shaped, and then it is that paragraph,
\* which the body does not hold.
C2_FooterIffLastParagraphTrailers ==
  (pc = "parsed" /\ HasTwoParagraphs(message))
    => LET last == LastParagraph(message)
       IN  /\ (parsed.footer # Undefined) <=> (\A i \in DOMAIN last : IsTrailerShaped(last[i]))
           /\ parsed.footer # Undefined => parsed.footer = Join(last, <<LF>>)

\* message = S \o "\n\n" \o B at index i, S one paragraph, S and B trimmed and
\* not empty, the last paragraph of B not a paragraph of trailer-shaped lines
IsRoundTripAt(msg, i) ==
  LET S == SubSeq(msg, 1, i - 1)
      B == SubSeq(msg, i + 2, Len(msg))
  IN  /\ i + 1 <= Len(msg) /\ msg[i] = LF /\ msg[i + 1] = LF
      /\ S # <<>> /\ Trim(S) = S /\ ~HasBlankLine(S \o <<"a">>)
      /\ B # <<>> /\ Trim(B) = B
      /\ \E j \in DOMAIN LastParagraph(B) : ~IsTrailerShaped(LastParagraph(B)[j])

RoundTripResult(msg, i) ==
  [subject |-> SubSeq(msg, 1, i - 1), body |-> SubSeq(msg, i + 2, Len(msg)), footer |-> Undefined]

\* the paragraphs of s are separated by exactly one empty line
SingleBlankLines(s) == \A i \in 1..(Len(s) - 2) : ~(s[i] = LF /\ s[i + 1] = LF /\ s[i + 2] = LF)

C4_TrailingNewlinesIgnored ==
  (pc = "parsed" /\ message # <<>> /\ ~IsLineTerminator(message[1]))
    => /\ parseCommitMessage(message \o <<LF>>) = parsed
       /\ parseCommitMessage(message \o <<LF, LF>>) = parsed

\* C5: the subject of a non-empty message is not the empty string, and an
\* absent body or footer is undefined, never an empty string.
C5_NoEmptyStrings ==
  (pc = "parsed" /\ message # <<>>)
    => (parsed.subject # <<>> /\ parsed.body # <<>> /\ parsed.footer # <<>>)

-----------------------------------------------------------------------------
(* Footer entries, and the ConventionalCommit accessors (Spec).            *)

IsTrailerLine(line) == TrailerPrefixLen(line) > 0

\* an indented, whitespace-only or empty line that is no trailer line
ContinuesEntry(line) == ~IsTrailerLine(line) /\ (line = <<>> \/ line[1] \in {" ", TAB})

\* the number of lines right after line i that continue its entry
ContinuationCount(lines, i) ==
  CHOOSE k \in 0..(Len(lines) - i) :
    /\ \A j \in 1..k : ContinuesEntry(lines[i + j])
    /\ i + k < Len(lines) => ~ContinuesEntry(lines[i + k + 1])

TrailerLinesOf(lines) == {i \in DOMAIN lines : IsTrailerLine(lines[i])}

\* C6: each trailer line starts one entry; the k lines that continue it are
\* appended to its value, trimmed, one per line; and the footer mapping has
\* one entry for each distinct trailer key.
C6_FooterEntries ==
  /\ pc = "footerElements"
       => LET lines == SplitLines(message)
          IN  /\ Len(footerElements) = Cardinality(TrailerLinesOf(lines))
              /\ \A n \in DOMAIN footerElements :
                   LET i == footerElements[n].lineNumber
                       k == ContinuationCount(lines, i)
                       v == SplitLines(footerElements[n].value)
                   IN  /\ i \in TrailerLinesOf(lines)
                       /\ Len(v) = k + 1
                       /\ \A j \in 1..k : v[j + 1] = Trim(lines[i + j])
  /\ (pc = "commit" /\ commit.footer.defined)
       => LET lines == SplitLines(segment(message).footer)
          IN  Len(commit.footer.map)
                = Cardinality({TrailerKey(lines[i]) : i \in TrailerLinesOf(lines)})

\* a footer entry whose value has two continuation lines, one of them of
\* whitespace only
C6_Witness ==
  /\ pc = "commit" /\ commit.footer.defined
  /\ \E j \in DOMAIN commit.footer.map :
       LET v == SplitLines(commit.footer.map[j].value)
       IN  Len(v) = 3 /\ v[2] = <<>> /\ v[3] = <<"c">>

MarkerPresent == IsDefined(conv.raw.breaking.value) /\ conv.raw.breaking.value[1] = "!"

FooterHasBreakingKey ==
  /\ commit.footer.defined
  /\ \E j \in DOMAIN commit.footer.map :
       \/ commit.footer.map[j].key = <<"B", "R", "E", "A", "K", "I", "N", "G", " ", "C", "H", "A", "N", "G", "E">>
       \/ commit.footer.map[j].key = <<"B", "R", "E", "A", "K", "I", "N", "G", "-", "C", "H", "A", "N", "G", "E">>

\* C7: breaking is true exactly when the breaking marker is present or the
\* footer has the key BREAKING CHANGE or BREAKING-CHANGE in upper case,
\* whether or not the commit is valid.
C7_Breaking ==
  pc = "conventional" => (breaking(conv) <=> (MarkerPresent \/ FooterHasBreakingKey))

\* an invalid commit, with a scope that is no noun and the marker "! ", that
\* reports breaking
C7_Witness ==
  /\ pc = "conventional"
  /\ ~isValid(conv)
  /\ conv.raw.scope.value = <<"(", "a", " ", "b", ")">>
  /\ conv.raw.breaking.value = <<"!", " ">>
  /\ ~FooterHasBreakingKey
  /\ breaking(conv)

\* the number of times d occurs in the sequence ds
Occurrences(ds, d) == Cardinality({i \in DOMAIN ds : ds[i] = d})

\* C8: isValid is true exactly when errors is empty; errors holds the
\* diagnostics of the rules of severity error and warnings those of severity
\* warning, each diagnostic in one list and once.
C8_ErrorsAndWarnings ==
  pc = "conventional"
    => LET results == ConcatAll(commitRules(conv.raw, options))
       IN  /\ isValid(conv) <=> conv.errors = <<>>
           /\ \A i \in DOMAIN conv.errors : conv.errors[i].level = "error"
           /\ \A i \in DOMAIN conv.warnings : conv.warnings[i].level = "warning"
           /\ \A i \in DOMAIN results :
                Occurrences(results, results[i])
                  = Occurrences(conv.errors, results[i]) + Occurrences(conv.warnings, results[i])
           /\ Len(conv.errors) + Len(conv.warnings) = Len(results)

\* a commit whose only diagnostic is a warning, and which is valid
C8_Witness ==
  /\ pc = "conventional"
  /\ conv.errors = <<>> /\ conv.warnings # <<>>
  /\ isValid(conv)

\* the text between the parentheses of the scope field
ScopeText(v) == SubSeq(v, 2, IndexOfClose(v, 1) - 1)

\* C9: a scope whose content holds a space makes the commit invalid, and the
\* scope accessor returns the content as it is.
C9_ScopeWithSpace ==
  (pc = "conventional" /\ IsDefined(conv.raw.scope.value)
     /\ \E i \in DOMAIN ScopeText(conv.raw.scope.value) : ScopeText(conv.raw.scope.value)[i] = " ")
    => (~isValid(conv) /\ scope(conv) = ScopeText(conv.raw.scope.value))

\* a subject feat(scope): x, in which only the scope can be at fault,
\* validated with no options
OnlyScopeInQuestion ==
  /\ options = NoOptions
  /\ conv.raw.commit.subject = message
  /\ conv.raw.type.value = Feat
  /\ IsDefined(conv.raw.scope.value) /\ conv.raw.scope.value[Len(conv.raw.scope.value)] = ")"
  /\ conv.raw.breaking.value = Undefined
  /\ conv.raw.seperator.value = <<":", " ">>
  /\ conv.raw.description.value = <<"x">>

\* C10: a scope of letters and hyphens, or of letters of any case, is
\* accepted: the commit is valid and scope is that text.
C10_ScopeOfLettersAndHyphens ==
  (pc = "conventional" /\ OnlyScopeInQuestion
     /\ ScopeText(conv.raw.scope.value) # <<>>
     /\ \A i \in DOMAIN ScopeText(conv.raw.scope.value) :
          IsLetter(ScopeText(conv.raw.scope.value)[i]) \/ ScopeText(conv.raw.scope.value)[i] = "-")
    => (isValid(conv) /\ scope(conv) = ScopeText(conv.raw.scope.value))

-----------------------------------------------------------------------------
(* The rules on configured values, the fixup marker and comment lines.     *)

\* every diagnostic of the validated commit, errors before warnings
Diagnostics == conv.errors \o conv.warnings

DiagnosticsOf(rule) == SelectSeq(Diagnostics, LAMBDA d : d.rule = rule)

\* the values of list without repetition, each where it first occurs
RECURSIVE DistinctInOrder(_)
DistinctInOrder(list) ==
  IF list = <<>> THEN <<>>
  ELSE <<Head(list)>> \o DistinctInOrder(SelectSeq(Tail(list), LAMBDA v : v # Head(list)))

ConfiguredTypes == IF options.types = NoList THEN <<>> ELSE options.types
ConfiguredScopes == IF options.scopes = NoList THEN <<>> ELSE options.scopes

\* feat, fix, then the other distinct configured types
AllowedTypes ==
  << <<"f", "e", "a", "t">>, <<"f", "i", "x">> >>
    \o SelectSeq(DistinctInOrder(ConfiguredTypes),
                 LAMBDA v : v # <<"f", "e", "a", "t">> /\ v # <<"f", "i", "x">>)

\* the list as the message shows it: the values separated by ", " in parentheses
Shown(list) ==
  <<"(">> \o Join(list, <<",", " ">>) \o <<")">>

\* C11: the list of allowed values an EC-02 diagnostic shows is feat, fix and
\* then every other distinct type of the options of the call in the order of
\* first occurrence, and the list an EC-01 diagnostic shows is the distinct
\* scopes of the options of the call in the order of first occurrence.
C11_AllowedValuesShown ==
  pc = "conventional"
    => /\ \A i \in DOMAIN Diagnostics :
            /\ Diagnostics[i].rule = "EC-02" => Diagnostics[i].values = Shown(AllowedTypes)
            /\ Diagnostics[i].rule = "EC-01"
                 => Diagnostics[i].values = Shown(DistinctInOrder(ConfiguredScopes))
       /\ \A i \in DOMAIN Diagnostics :
            (Diagnostics[i].rule = "EC-02" /\ Len(ConfiguredTypes) = 5)
              => Diagnostics[i].values
                   = <<"(", "f", "e", "a", "t", ",", " ", "f", "i", "x", ",", " ",
                       "d", "o", "c", ",", " ", "c", "i", ")">>
       /\ \A i \in DOMAIN Diagnostics :
            (Diagnostics[i].rule = "EC-01" /\ Len(ConfiguredScopes) = 4)
              => Diagnostics[i].values = <<"(", "c", "l", "i", ",", " ", "a", "b", ")">>

\* types feat, doc, doc, fix, ci and scopes cli, cli, ab, cli: a commit of
\* another type and scope draws one diagnostic of each rule
C11_Witness ==
  /\ pc = "conventional"
  /\ Len(ConfiguredTypes) = 5 /\ Len(ConfiguredScopes) = 4
  /\ conv.raw.type.value = <<"c", "h", "o", "r", "e">>
  /\ Len(DiagnosticsOf("EC-02")) = 1
  /\ Len(DiagnosticsOf("EC-01")) = 1

\* the type field without the blanks around it
TypeText == Trim(conv.raw.type.value)

TypePresent == IsDefined(conv.raw.type.value) /\ TypeText # <<>>

NounShaped(text) == \A i \in DOMAIN text : IsLetter(text[i])

SameWithoutCase(a, b) == toLowerCase(a) = toLowerCase(b)

\* the type is feat, fix or a configured type, compared without regard to case
TypeIsAllowed ==
  \/ SameWithoutCase(TypeText, <<"f", "e", "a", "t">>)
  \/ SameWithoutCase(TypeText, <<"f", "i", "x">>)
  \/ \E i \in DOMAIN ConfiguredTypes : SameWithoutCase(TypeText, ConfiguredTypes[i])

\* the caller configured a type other than feat and fix
CustomTypeSupplied ==
  \E i \in DOMAIN ConfiguredTypes :
    ConfiguredTypes[i] # <<"f", "e", "a", "t">> /\ ConfiguredTypes[i] # <<"f", "i", "x">>

\* C12: a type that is present, noun-shaped and not among feat, fix and the
\* configured types draws exactly one EC-02 diagnostic, an error when a
\* custom type is configured and a warning otherwise; so doc: x is valid with
\* one warning under no custom type and invalid under a custom type.
C12_UnknownTypeSeverity ==
  pc = "conventional"
    => /\ (TypePresent /\ NounShaped(TypeText) /\ ~TypeIsAllowed)
            => /\ Len(DiagnosticsOf("EC-02")) = 1
               /\ DiagnosticsOf("EC-02")[1].level
                    = IF CustomTypeSupplied THEN "error" ELSE "warning"
       /\ (message = <<"c", "h", "o", "r", "e", ":", " ", "x">> /\ ~CustomTypeSupplied)
            => (isValid(conv) /\ Len(conv.warnings) = 1)
       /\ (message = <<"c", "h", "o", "r", "e", ":", " ", "x">> /\ CustomTypeSupplied)
            => ~isValid(conv)

\* chore: x under types feat, fix: no custom type, one warning, valid
C12_Witness ==
  /\ pc = "conventional"
  /\ message = <<"c", "h", "o", "r", "e", ":", " ", "x">>
  /\ Len(ConfiguredTypes) = 2 /\ ~CustomTypeSupplied
  /\ Len(DiagnosticsOf("EC-02")) = 1
  /\ conv.warnings = DiagnosticsOf("EC-02")
  /\ isValid(conv)

\* C13: a type that equals feat, fix or a configured type, compared without
\* regard to case and in whatever case the configured type is written, draws
\* no EC-02 diagnostic; FEAT: x is valid.
C13_TypesMatchedWithoutCase ==
  pc = "conventional"
    => /\ (TypePresent /\ TypeIsAllowed) => DiagnosticsOf("EC-02") = <<>>
       /\ message = <<"F", "E", "A", "T", ":", " ", "x">> => isValid(conv)

\* the subject starts with "(", "!" or ":", so that its type field is empty
SubjectWithoutType ==
  /\ conv.raw.commit.subject # <<>>
  /\ conv.raw.commit.subject[1] \in {"(", "!", ":"}

\* C14: a subject whose type field is empty draws, under every options value,
\* exactly one diagnostic about the missing type, an EC-02 error; CC-01
\* reports nothing about the type (it may still report the missing colon),
\* and the commit is not valid.
C14_EmptyTypeIsReportedOnce ==
  (pc = "conventional" /\ SubjectWithoutType)
    => /\ Len(DiagnosticsOf("EC-02")) = 1
       /\ DiagnosticsOf("EC-02")[1].level = "error"
       /\ DiagnosticsOf("EC-02")[1].highlight = "prefixed with a type"
       /\ \A i \in DOMAIN Diagnostics :
            Diagnostics[i].rule = "CC-01" => Diagnostics[i].highlight = "REQUIRED terminal colon"
       /\ Len(DiagnosticsOf("CC-01")) = (IF IsDefined(conv.raw.seperator.value) THEN 0 ELSE 1)
       /\ ~isValid(conv)

\* (cli): x under a list of custom types: the EC-02 error is the only error
C14_Witness ==
  /\ pc = "conventional"
  /\ message = <<"(", "c", "l", "i", ")", ":", " ", "x">>
  /\ CustomTypeSupplied
  /\ conv.errors = DiagnosticsOf("EC-02")
  /\ Len(conv.errors) = 1
  /\ conv.warnings = <<>>

\* the subject starts with fixup!, in any letter case
SubjectStartsWithFixup ==
  /\ Len(commit.subject) >= 6
  /\ toLowerCase(SubSeq(commit.subject, 1, 6)) = <<"f", "i", "x", "u", "p", "!">>

\* C15: a message whose subject starts with fixup!, in any letter case, is,
\* under every options value, a fixup commit and not a valid conventional
\* commit.
C15_FixupIsNeverValid ==
  (pc = "conventional" /\ SubjectStartsWithFixup)
    => (conv.raw.commit.isFixup /\ ~isValid(conv))

\* the message with every line that begins with # deleted
WithoutCommentLines(msg) ==
  Join(SelectSeq(SplitLines(msg), LAMBDA l : l = <<>> \/ l[1] # "#"), <<LF>>)

\* C16: the subject, body, footer, type, breaking and isValid of a message
\* are those of the message with its comment lines deleted; a comment line
\* directly under the subject line draws no CC-06 error, and a paragraph of
\* trailers after a comment is the footer.
C16_CommentLinesAreRemoved ==
  (pc = "conventional" /\ \E i \in DOMAIN message : message[i] = "#")
    => LET bare     == CommitFromString(WithoutCommentLines(message))
           bareConv == ConventionalCommitFromCommit(bare, options)
           lines    == SplitLines(message)
       IN  /\ commit.subject = bare.subject
           /\ commit.body = bare.body
           /\ commit.footer = bare.footer
           /\ type(conv) = type(bareConv)
           /\ breaking(conv) = breaking(bareConv)
           /\ isValid(conv) = isValid(bareConv)
           /\ (Len(lines) >= 2 /\ IsCommentLine(lines[2]) /\ (Len(lines) = 2 \/ lines[3] = <<>>))
                => DiagnosticsOf("CC-06") = <<>>

\* feat: x, a comment line under it, a blank line and BREAKING CHANGE: y: the
\* subject is one line, the trailer is the footer and the commit is valid
C16_Witness ==
  /\ pc = "conventional"
  /\ SplitLines(message)
       = << <<"f", "e", "a", "t", ":", " ", "x">>, <<"#", "c">>, <<>>,
            <<"B", "R", "E", "A", "K", "I", "N", "G", " ", "C", "H", "A", "N", "G", "E", ":", " ", "y">> >>
  /\ commit.subject = <<"f", "e", "a", "t", ":", " ", "x">>
  /\ commit.footer.defined
  /\ breaking(conv)
  /\ isValid(conv)

\* the subject holds a line break: it spans more than one physical line
SubjectIsMultiLine == \E i \in DOMAIN commit.subject : commit.subject[i] = LF

SecondSubjectLine == SplitLines(commit.subject)[2]

\* the first line of the subject, validated alone under the same options, is valid
FirstLineWellFormed ==
  isValid(ConventionalCommitFromCommit(CommitFromString(SplitLines(commit.subject)[1]), options))

\* CC-06 reports one error, at line 2 and column 1 with a fix-it as long as
\* the second line, exactly when the subject spans more than one line
CC06ReportsMultiLineSubject ==
  /\ Len(DiagnosticsOf("CC-06")) = (IF SubjectIsMultiLine THEN 1 ELSE 0)
  /\ SubjectIsMultiLine
       => /\ DiagnosticsOf("CC-06")[1].level = "error"
          /\ DiagnosticsOf("CC-06")[1].line = 2
          /\ DiagnosticsOf("CC-06")[1].column = 1
          /\ DiagnosticsOf("CC-06")[1].fixIndex = 1
          /\ DiagnosticsOf("CC-06")[1].fixLength = Len(SecondSubjectLine)

LongKeyOf(line) ==
  IF Len(line) >= 16 /\ line[16] = ":" THEN SubSeq(line, 1, 15)
  ELSE IF Len(line) >= 17 /\ line[16] = " " /\ line[17] = "#" /\ line[9] = "-" THEN SubSeq(line, 1, 15)
  ELSE <<>>

IsBreakingKeyInAnyCase(key) ==
  \/ toUpperCase(key) = <<"B", "R", "E", "A", "K", "I", "N", "G", " ", "C", "H", "A", "N", "G", "E">>
  \/ toUpperCase(key) = <<"B", "R", "E", "A", "K", "I", "N", "G", "-", "C", "H", "A", "N", "G", "E">>

\* the numbers of the lines of the raw message that are breaking-change
\* trailers not written in upper case
MiscasedBreakingLinesOf(lines) ==
  { i \in DOMAIN lines :
      LET key == LongKeyOf(lines[i])
      IN  IsBreakingKeyInAnyCase(key) /\ key # toUpperCase(key) }

MiscasedBreakingLines == MiscasedBreakingLinesOf(SplitLines(message))

\* the numbers of the lines that are breaking-change trailers in upper case
UpperCaseBreakingLinesOf(lines) ==
  { i \in DOMAIN lines :
      LET key == LongKeyOf(lines[i])
      IN  IsBreakingKeyInAnyCase(key) /\ key = toUpperCase(key) }

UpperCaseBreakingLines == UpperCaseBreakingLinesOf(SplitLines(message))

\* C18: CC-15 reports one error for each line of the raw message that is a
\* breaking-change trailer not written in upper case, and none for a key in
\* upper case; the error is at the number of that line in the raw message
\* and at column 1, with a fix-it as long as the key.
C18_MiscasedBreakingChange ==
  pc = "conventional"
    => LET found    == DiagnosticsOf("CC-15")
           lines    == SplitLines(message)
           miscased == MiscasedBreakingLinesOf(lines)
       IN  /\ Len(found) = Cardinality(miscased)
           /\ \A n \in miscased :
                Cardinality({i \in DOMAIN found : found[i].line = n}) = 1
           /\ \A i \in DOMAIN found :
                /\ found[i].line \in miscased
                /\ found[i].level = "error"
                /\ found[i].column = 1
                /\ found[i].fixIndex = 1
                /\ found[i].fixLength = Len(LongKeyOf(lines[found[i].line]))

\* a message with breaking change: at line 3 and BREAKING CHANGE: at line 4:
\* one error, at line 3
C18_Witness ==
  /\ pc = "conventional"
  /\ MiscasedBreakingLines = {3}
  /\ UpperCaseBreakingLines = {4}
  /\ Len(conv.errors) = 1
  /\ conv.errors[1].rule = "CC-15" /\ conv.errors[1].line = 3 /\ conv.errors[1].fixLength = 15

BodyLines == IF IsDefined(commit.body) THEN SplitLines(commit.body) ELSE <<>>

\* the body lines that start a trailer whose key is BREAKING CHANGE or
\* BREAKING-CHANGE, written so
BreakingBodyLines ==
  { i \in DOMAIN BodyLines :
      LET key == LongKeyOf(BodyLines[i])
      IN  \/ key = <<"B", "R", "E", "A", "K", "I", "N", "G", " ", "C", "H", "A", "N", "G", "E">>
          \/ key = <<"B", "R", "E", "A", "K", "I", "N", "G", "-", "C", "H", "A", "N", "G", "E">> }

\* C19: there are as many WA-01 warnings as body lines that start a trailer
\* whose key is exactly BREAKING CHANGE or BREAKING-CHANGE; WA-01 reports no
\* error; and with such a trailer in the body, no marker and no such key in
\* the footer, breaking is false.
C19_BreakingChangeInBody ==
  pc = "conventional"
    => /\ Len(DiagnosticsOf("WA-01")) = Cardinality(BreakingBodyLines)
       /\ \A i \in DOMAIN conv.errors : conv.errors[i].rule # "WA-01"
       /\ Len(SelectSeq(conv.warnings, LAMBDA d : d.rule = "WA-01")) = Cardinality(BreakingBodyLines)
       /\ (BreakingBodyLines # {} /\ ~MarkerPresent /\ ~FooterHasBreakingKey) => ~breaking(conv)

\* a body of three lines, BREAKING CHANGE: y, a continuation line and a line
\* of text: one warning, no error, and breaking is false
C19_Witness ==
  /\ pc = "conventional"
  /\ Len(BodyLines) = 3
  /\ BreakingBodyLines = {1}
  /\ BodyLines[2] = <<" ", "c">>
  /\ Len(conv.warnings) = 1 /\ conv.warnings[1].rule = "WA-01"
  /\ conv.errors = <<>>
  /\ ~breaking(conv)

-----------------------------------------------------------------------------
(* The git data source (SpecGit).                                           *)

\* C20: reading a commit by hash throws Invalid git folder specified when
\* there is no objects folder, whether or not the hash exists; otherwise it
\* throws Could not find commit message for hash when the hash is neither a
\* loose object nor in an index of a pack; a hash that is a loose object is
\* returned from there; and an error comes with no commit.
C20_ReadByHash ==
  pc = "fetched"
    => /\ ~repository.objects
            => (fetched.outcome = "error" /\ fetched.error = "Invalid git folder specified")
       /\ (repository.objects /\ ~repository.loose /\ ~repository.packed)
            => (fetched.outcome = "error"
                /\ fetched.error = "Could not find commit message for hash")
       /\ repository.loose
            => (fetched.outcome = "commit"
                /\ fetched.commit.message = parseCommitMessage(Trim(message)))
       /\ fetched.outcome = "error" => fetched.commit = NoCommit

-----------------------------------------------------------------------------
(* The conventional commit as a whole: totality, order, positions.         *)

\* a diagnostic as the rules create them
IsDiagnostic(d) ==
  /\ d.rule \in {"CC-01", "CC-04", "CC-05", "CC-06", "CC-15", "EC-01", "EC-02", "WA-01"}
  /\ d.level \in {"error", "warning"}
  /\ d.line >= 1 /\ d.column >= 1

\* the structural pattern matched nothing: no field has a value
NoFieldCaptured ==
  /\ conv.raw.type.value = Undefined
  /\ conv.raw.scope.value = Undefined
  /\ conv.raw.breaking.value = Undefined
  /\ conv.raw.seperator.value = Undefined
  /\ conv.raw.description.value = Undefined

DescriptionOfCli == <<"(", "c", "l", "i", ")">>

FirstLine == SplitLines(commit.subject)[1]

\* the captured text of a field, empty when the field is absent
Captured(field) == IF IsDefined(field.value) THEN field.value ELSE <<>>

\* C23: for every first line of a subject the extraction of the fields
\* succeeds and the five fields partition the line: the type starts at 1,
\* every next field starts where the one before it ends, the captured values
\* in their order make up the line, and the description ends where the line ends.
C23_FieldsPartitionLine ==
  pc = "conventional"
    => LET f == conv.raw
       IN  /\ IsDefined(f.type.value)
           /\ f.type.index = 1
           /\ f.scope.index = f.type.index + Len(Captured(f.type))
           /\ f.breaking.index = f.scope.index + Len(Captured(f.scope))
           /\ f.seperator.index = f.breaking.index + Len(Captured(f.breaking))
           /\ f.description.index = f.seperator.index + Len(Captured(f.seperator))
           /\ Captured(f.type) \o Captured(f.scope) \o Captured(f.breaking)
                \o Captured(f.seperator) \o Captured(f.description) = FirstLine
           /\ f.description.index - 1 + Len(Captured(f.description)) = Len(FirstLine)

\* the diagnostics of one rule that have the given severity
OfLevel(diagnostics, level) == SelectSeq(diagnostics, LAMBDA d : d.level = level)

\* the place of a rule in the fixed order
RuleRank(rule) ==
  CASE rule = "CC-01" -> 1 [] rule = "CC-04" -> 2 [] rule = "CC-05" -> 3 [] rule = "CC-06" -> 4
    [] rule = "CC-15" -> 5 [] rule = "EC-01" -> 6 [] rule = "EC-02" -> 7 [] rule = "WA-01" -> 8

\* the diagnostics of the given severity of every rule run alone, in the fixed order
InFixedOrder(level) ==
  OfLevel(CC01(conv.raw), level) \o OfLevel(CC04(conv.raw), level)
    \o OfLevel(CC05(conv.raw), level) \o OfLevel(CC06(conv.raw), level)
    \o OfLevel(CC15(conv.raw), level) \o OfLevel(EC01(conv.raw, options), level)
    \o OfLevel(EC02(conv.raw, options), level) \o OfLevel(WA01(conv.raw), level)

\* the rules that have an error in the result
RulesInError == {conv.errors[i].rule : i \in DOMAIN conv.errors}

\* C24: the rules run in the order CC-01, CC-04, CC-05, CC-06, CC-15, EC-01,
\* EC-02, WA-01 and none is skipped because an earlier one reported an error:
\* errors is the concatenation in that order of the error diagnostics each
\* rule produces when run alone on the same fields and options, and warnings
\* that of the warning diagnostics.
C24_RulesRunInOrder ==
  pc = "conventional"
    => /\ conv.errors = InFixedOrder("error")
       /\ conv.warnings = InFixedOrder("warning")
       /\ \A i, j \in DOMAIN conv.errors :
            i < j => RuleRank(conv.errors[i].rule) <= RuleRank(conv.errors[j].rule)
       /\ \A i, j \in DOMAIN conv.warnings :
            i < j => RuleRank(conv.warnings[i].rule) <= RuleRank(conv.warnings[j].rule)

\* a commit with errors of three rules, CC-01 first and EC-02 among those
\* that follow it
C24_Witness ==
  /\ pc = "conventional"
  /\ Cardinality(RulesInError) >= 3
  /\ conv.errors[1].rule = "CC-01"
  /\ "EC-02" \in RulesInError

\* the five fields of the first line in their order
FieldOrder == <<"type", "scope", "breaking", "seperator", "description">>

\* the CC-01 errors on the spacing between fields: those that are neither
\* the error of the noun nor the error of the missing colon, which is the
\* last one when no separator was captured
SpacingErrors ==
  LET spaced == SelectSeq(conv.errors,
                          LAMBDA d : d.rule = "CC-01" /\ d.highlight # "which consists of a noun")
  IN  IF IsDefined(conv.raw.seperator.value) THEN spaced ELSE SubSeq(spaced, 1, Len(spaced) - 1)

\* the diagnostics created in whitespace mode
WhitespaceDiagnostics == SpacingErrors \o SelectSeq(conv.errors, LAMBDA d : d.rule = "CC-05")

\* the place in FieldOrder of the field a whitespace diagnostic is about
TargetOf(d) ==
  CASE d.rule = "CC-05" -> 5
    [] d.highlight = "followed by the OPTIONAL scope" -> 2
    [] d.highlight = "OPTIONAL !" -> 3
    [] OTHER -> 4

\* the places before the target of the fields that were captured
CapturedBefore(target) ==
  {k \in 1..(target - 1) : IsDefined(conv.raw[FieldOrder[k]].value)}

\* the nearest of them
NearestBefore(target) ==
  CHOOSE k \in CapturedBefore(target) : \A j \in CapturedBefore(target) : j <= k

\* the first character of the gap after the nearest captured field
GapStart(target) ==
  LET field == conv.raw[FieldOrder[NearestBefore(target)]]
  IN  field.index + Len(TrimEnd(field.value))

\* C25: every diagnostic created in whitespace mode (the CC-01 spacing errors
\* and the CC-05 error) is on line 1 and its column is the offset of the
\* nearest field before its target that was captured plus the length of that
\* field without its trailing whitespace.
C25_WhitespaceColumn ==
  pc = "conventional"
    => \A i \in DOMAIN WhitespaceDiagnostics :
         /\ WhitespaceDiagnostics[i].line = 1
         /\ WhitespaceDiagnostics[i].column = GapStart(TargetOf(WhitespaceDiagnostics[i]))

\* a non-empty text of letters only
LettersOnly(text) == Len(text) > 0 /\ \A i \in DOMAIN text : IsLetter(text[i])

\* C26: whenever isValid is true, the subject is a single line, the type is
\* a non-empty string of letters, the scope, if present, is a non-empty run
\* of letters in parentheses, the breaking marker, if present, is exactly !,
\* the separator is a colon followed by exactly one space, and the
\* description is present and not empty.
C26_ValidMeansWellFormed ==
  (pc = "conventional" /\ isValid(conv))
    => LET f == conv.raw
       IN  /\ Len(SplitLines(commit.subject)) = 1
           /\ IsDefined(f.type.value) /\ LettersOnly(f.type.value)
           /\ IsDefined(f.scope.value)
                => /\ Len(f.scope.value) >= 2
                   /\ f.scope.value[1] = "(" /\ f.scope.value[Len(f.scope.value)] = ")"
                   /\ LettersOnly(SubSeq(f.scope.value, 2, Len(f.scope.value) - 1))
           /\ IsDefined(f.breaking.value) => f.breaking.value = <<"!">>
           /\ f.seperator.value = <<":", " ">>
           /\ IsDefined(f.description.value) /\ Len(f.description.value) > 0

\* the scope accessor returns one of the configured scopes
ScopeIsConfigured == \E i \in DOMAIN ConfiguredScopes : ConfiguredScopes[i] = scope(conv)

\* C27: EC-01 agrees with the scope accessor: there is exactly one EC-01
\* error when scopes are configured, a scope is present and the value the
\* accessor returns is not one of them, and none otherwise; a scope of the
\* configured set draws no EC-01 error whatever whitespace is around the
\* parentheses.
C27_ScopeRuleFollowsAccessor ==
  pc = "conventional"
    => /\ Len(DiagnosticsOf("EC-01"))
            = IF Len(ConfiguredScopes) > 0 /\ IsDefined(conv.raw.scope.value) /\ ~ScopeIsConfigured
              THEN 1 ELSE 0
       /\ \A i \in DOMAIN Diagnostics : Diagnostics[i].rule = "EC-01" => Diagnostics[i].level = "error"

\* the whitespace characters between the trimmed end of the nearest captured
\* field before the target and the start of the next field
GapLength(target) ==
  LET field == conv.raw[FieldOrder[NearestBefore(target)]]
  IN  Len(field.value) - Len(TrimEnd(field.value))

\* C28: the fix-it span of every whitespace-mode diagnostic covers the gap
\* the diagnostic points at: its length is the number of whitespace
\* characters between the trimmed end of the captured field before it and
\* the start of the next field, and 1 when there is no whitespace there.
C28_FixItCoversGap ==
  pc = "conventional"
    => \A i \in DOMAIN WhitespaceDiagnostics :
         LET gap == GapLength(TargetOf(WhitespaceDiagnostics[i]))
         IN  WhitespaceDiagnostics[i].fixLength = IF gap = 0 THEN 1 ELSE gap

\* the diagnostics placed on the subject line
SubjectLineDiagnostics ==
  SelectSeq(Diagnostics, LAMBDA d : d.rule \in {"CC-01", "CC-04", "CC-05", "EC-01", "EC-02"})

\* C29: every diagnostic placed on the subject line (CC-01, CC-04, CC-05,
\* EC-01, EC-02) is on line 1, has a column from 1 to the length of the first
\* line plus 1, and a fix-it hint that starts at the column and has a length
\* of at least 1, also when the field it is about is absent, empty or blank.
C29_CaretWithinLine ==
  pc = "conventional"
    => \A i \in DOMAIN SubjectLineDiagnostics :
         LET d == SubjectLineDiagnostics[i]
         IN  /\ d.line = 1
             /\ 1 <= d.column /\ d.column <= Len(FirstLine) + 1
             /\ d.fixIndex = d.column
             /\ d.fixLength >= 1

\* a line that begins with a scope and has no colon: the EC-02 error is about
\* the empty type and its hint has length 1, and the CC-01 error is about the
\* absent separator, one place after the end of the line
C29_Witness ==
  /\ pc = "conventional"
  /\ conv.raw.type.value = <<>>
  /\ IsDefined(conv.raw.scope.value)
  /\ ~IsDefined(conv.raw.seperator.value)
  /\ Len(DiagnosticsOf("EC-02")) = 1
  /\ DiagnosticsOf("EC-02")[1].column = 1
  /\ DiagnosticsOf("EC-02")[1].fixLength = 1
  /\ Len(DiagnosticsOf("CC-01")) = 1
  /\ DiagnosticsOf("CC-01")[1].column = Len(FirstLine) + 1

-----------------------------------------------------------------------------
(* The place of the warning on a breaking change in the body.              *)

\* the lines of the message as it was given
MessageLines == SplitLines(message)

\* the number of lines of the subject
SubjectLineCount == Len(SplitLines(commit.subject))

\* the message is the subject, one blank line and the body, line for line
BodyFollowsOneBlankLine ==
  /\ IsDefined(commit.body)
  /\ Len(MessageLines) >= SubjectLineCount + 1 + Len(BodyLines)
  /\ MessageLines[SubjectLineCount + 1] = <<>>
  /\ \A k \in DOMAIN BodyLines : MessageLines[SubjectLineCount + 1 + k] = BodyLines[k]

\* the i-th smallest member of a set of line numbers
NthOf(numbers, i) == CHOOSE k \in numbers : Cardinality({j \in numbers : j <= k}) = i

\* C30: for a message whose subject has S lines, followed by one blank line
\* and the body, the line number of each WA-01 warning is the line number in
\* the message of the body line that holds the BREAKING CHANGE trailer,
\* S + 1 + k for the k-th body line, and the context of the warning starts at
\* the message line where the body starts.
C30_WarningLineInMessage ==
  (pc = "conventional" /\ BodyFollowsOneBlankLine)
    => /\ Len(DiagnosticsOf("WA-01")) = Cardinality(BreakingBodyLines)
       /\ \A i \in DOMAIN DiagnosticsOf("WA-01") :
            /\ DiagnosticsOf("WA-01")[i].line = SubjectLineCount + 1 + NthOf(BreakingBodyLines, i)
            /\ DiagnosticsOf("WA-01")[i].context = SubjectLineCount + 2

====
